---- MODULE Spec2Model ----
(***************************************************************************)
(* GalleryManager (src/backend/model/sql/GalleryManager.ts): the           *)
(* reconciliation of a persisted directory tree with the filesystem.       *)
(*                                                                         *)
(* listDirectory and indexDirectory are async functions: every `await` is  *)
(* a point where another request, another pass or the filesystem may act.  *)
(* One action of the model is one stretch of code between two awaits,      *)
(* attached to the store operation that the stretch awaits.                *)
(*                                                                         *)
(* The tree has two levels: the image folder itself (name ".", path "./")  *)
(* and its sub-folders (name n, path "./").                                *)
(***************************************************************************)
EXTENDS Integers, Sequences, FiniteSets, TLC

(* ---- bounds of the model ---- *)
MaxTime == 2
MaxCalls == 2
MaxSoloCalls == 3
Procs == {1, 2}
DirOrder == <<"a">>
PhotoOrder == <<"p", "q">>

(* ---- configuration (Config.Server.indexing) ---- *)
low == 1
medium == 2
high == 3
cachedFolderTimeout == 0
folderPreviewSize == 1

Root == "."
RootPath == "./"
DirNames == {DirOrder[i] : i \in 1..Len(DirOrder)}
PhotoNames == {PhotoOrder[i] : i \in 1..Len(PhotoOrder)}
Keys == {Root} \cup DirNames
NoKey == ""

VARIABLES
  now,         \* Date.now()
  sens,        \* Config.Server.indexing.reIndexingSensitivity
  diskDirs,    \* sub-folders of the image folder that exist on disk
  diskLM,      \* max(ctime, mtime) of every folder
  diskPhotos,  \* per folder and photo name: 0 = no such file, else the size read from it
  dirs,        \* rows of DirectoryEntity
  photos,      \* rows of PhotoEntity
  nextId,      \* next generated primary key
  calls,       \* listDirectory calls made so far
  req,         \* per caller: the locals of its listDirectory call
  pass,        \* per caller: the locals of the indexDirectory promise it created
  prev,        \* the folder whose pass ended last, undisturbed ever since, or NoKey
  ml           \* MetadataLoader: the file given to, and the locals of, one load call

gvars == <<now, sens, diskDirs, diskLM, diskPhotos, dirs, photos, nextId, calls, req, pass, prev>>
vars == <<gvars, ml>>

(* ---- small helpers ---- *)
Min(a, b) == IF a < b THEN a ELSE b
Take(s, n) == SubSeq(s, 1, Min(n, Len(s)))
Range(s) == {s[i] : i \in 1..Len(s)}

RECURSIVE SortById(_)
SortById(S) ==
  IF S = {} THEN <<>>
  ELSE LET m == CHOOSE r \in S : \A o \in S : r.id <= o.id
       IN <<m>> \o SortById(S \ {m})

(* ---- values ---- *)
(* 0 stands for undefined in the optional metadata fields; size is the     *)
(* {width, height} object, abstracted to the number that identifies it.    *)
CreationOf(n) == IF n = "p" THEN 2 ELSE 1
MetaOf(n, v) ==
  [keywords |-> 0, cameraData |-> 0, positionData |-> 0, size |-> v,
   creationDate |-> CreationOf(n)]

NoDir ==
  [id |-> 0, name |-> NoKey, path |-> NoKey, parent |-> 0, scanned |-> FALSE,
   lastModified |-> 0, lastScanned |-> 0]
NoScan ==
  [name |-> NoKey, path |-> NoKey, lastModified |-> 0, lastScanned |-> 0,
   directories |-> <<>>, photos |-> <<>>]

(* ---- the filesystem ---- *)
Exists(k) == k = Root \/ k \in diskDirs

ScanPhotos(k) ==
  LET s == SelectSeq(PhotoOrder, LAMBDA n : diskPhotos[k][n] # 0)
  IN [i \in 1..Len(s) |-> [name |-> s[i], metadata |-> MetaOf(s[i], diskPhotos[k][s[i]])]]

(* DiskManager.scanDirectory: one level, full; the sub-folders carry their *)
(* first folderPreviewSize photos only.                                    *)
scanDirectory(k) ==
  LET ds == IF k = Root THEN SelectSeq(DirOrder, LAMBDA n : n \in diskDirs) ELSE <<>>
  IN [name |-> k, path |-> RootPath,
      lastModified |-> diskLM[k], lastScanned |-> now,
      directories |-> [i \in 1..Len(ds) |->
         [name |-> ds[i], path |-> RootPath,
          lastModified |-> diskLM[ds[i]], lastScanned |-> now,
          photos |-> Take(ScanPhotos(ds[i]), folderPreviewSize)]],
      photos |-> ScanPhotos(k)]

(* ---- the store ---- *)
(* getOne() of "directory.name = :name AND directory.path = :path": the    *)
(* first row in primary-key order, or null.                                *)
FindDir(name, path) ==
  LET m == {d \in dirs : d.name = name /\ d.path = path}
  IN IF m = {} THEN NoDir ELSE CHOOSE d \in m : \A o \in m : d.id <= o.id

ChildDirs(id) == {d \in dirs : d.parent = id}
PhotosOf(id) == {ph \in photos : ph.directory = id}

RECURSIVE SortByCreation(_)
SortByCreation(S) ==
  IF S = {} THEN <<>>
  ELSE LET m == CHOOSE r \in S : \A o \in S :
                  \/ r.metadata.creationDate < o.metadata.creationDate
                  \/ /\ r.metadata.creationDate = o.metadata.creationDate
                     /\ r.id <= o.id
       IN <<m>> \o SortByCreation(S \ {m})

(* the rows in primary-key order, limit(folderPreviewSize) *)
PreviewOfById(id) == Take(SortById(PhotosOf(id)), folderPreviewSize)

(* orderBy("photo.metadata.creationDate", "ASC").limit(folderPreviewSize) *)
PreviewOf(id) == Take(SortByCreation(PhotosOf(id)), folderPreviewSize)

(* ---- per-caller locals ---- *)
IdleReq ==
  [pc |-> "idle", tgt |-> Root, lastModified |-> 0, known |-> <<0, 0>>,
   dir |-> NoDir, directories |-> {}, photos |-> {}, todo |-> <<>>, previews |-> {},
   tCheck |-> 0, tDecide |-> 0, result |-> "none",
   solo |-> FALSE, after |-> FALSE, clean |-> FALSE, during |-> {},
   changed |-> FALSE, afterEnd |-> FALSE]
IdlePass ==
  [pc |-> "idle", background |-> FALSE, scannedDirectory |-> NoScan,
   parentDir |-> NoDir, indexedDirectories |-> <<>>, i |-> 0, d |-> 0,
   indexedPhotos |-> <<>>, photosToSave |-> <<>>, writes |-> {},
   preDirs |-> {}, prePhotos |-> {}, preRows |-> {},
   settled |-> "pending", logged |-> FALSE]

ReqBusy(q) == req[q].pc \notin {"idle", "done"}
PassBusy(q) == pass[q].pc \notin {"idle", "done", "failed"}
Active(q) == ReqBusy(q) \/ PassBusy(q)

Init ==
  /\ now = 1
  /\ sens \in {low, medium, high}
  /\ diskDirs \in SUBSET DirNames
  /\ diskLM = [k \in Keys |-> IF Exists(k) THEN 1 ELSE 0]
  /\ \E rootHas \in {0, 1} :
       diskPhotos = [k \in Keys |-> [n \in PhotoNames |->
                       IF k = Root THEN rootHas ELSE IF k \in diskDirs THEN 1 ELSE 0]]
  /\ dirs = {}
  /\ photos = {}
  /\ nextId = 1
  /\ calls = 0
  /\ req = [p \in Procs |-> IdleReq]
  /\ pass = [p \in Procs |-> IdlePass]
  /\ prev = NoKey
  /\ ml = [pc |-> "unused"]

(* ---- the environment: the clock and the filesystem ---- *)
(* A change of a folder's entries sets its lastModified to the time of the *)
(* change; rewriting a photo file leaves the folder's lastModified alone.  *)
Disturbed ==
  [q \in Procs |-> [req[q] EXCEPT !.after = FALSE, !.clean = FALSE, !.afterEnd = FALSE,
                                  !.changed = @ \/ pass[q].pc \in {"done", "failed"}]]

Tick ==
  /\ now < MaxTime
  /\ now' = now + 1
  /\ UNCHANGED <<ml, sens, diskDirs, diskLM, diskPhotos, dirs, photos, nextId, calls, req, pass, prev>>

AddPhoto ==
  /\ now < MaxTime
  /\ \E k \in Keys, n \in PhotoNames :
       /\ Exists(k) /\ diskPhotos[k][n] = 0
       /\ diskPhotos' = [diskPhotos EXCEPT ![k][n] = 1]
       /\ diskLM' = [diskLM EXCEPT ![k] = now + 1]
  /\ now' = now + 1
  /\ req' = Disturbed /\ prev' = NoKey
  /\ UNCHANGED <<ml, sens, diskDirs, dirs, photos, nextId, calls, pass>>

RemovePhoto ==
  /\ now < MaxTime
  /\ \E k \in Keys, n \in PhotoNames :
       /\ Exists(k) /\ diskPhotos[k][n] # 0
       /\ diskPhotos' = [diskPhotos EXCEPT ![k][n] = 0]
       /\ diskLM' = [diskLM EXCEPT ![k] = now + 1]
  /\ now' = now + 1
  /\ req' = Disturbed /\ prev' = NoKey
  /\ UNCHANGED <<ml, sens, diskDirs, dirs, photos, nextId, calls, pass>>

ModifyPhoto ==
  /\ now < MaxTime
  /\ \E k \in Keys, n \in PhotoNames :
       /\ Exists(k) /\ diskPhotos[k][n] # 0
       /\ diskPhotos' = [diskPhotos EXCEPT ![k][n] = 3 - @]
  /\ now' = now + 1
  /\ req' = Disturbed /\ prev' = NoKey
  /\ UNCHANGED <<ml, sens, diskDirs, diskLM, dirs, photos, nextId, calls, pass>>

AddDir ==
  /\ now < MaxTime
  /\ \E n \in DirNames :
       /\ n \notin diskDirs
       /\ diskDirs' = diskDirs \cup {n}
       /\ diskPhotos' = [diskPhotos EXCEPT ![n] = [m \in PhotoNames |-> 1]]
       /\ diskLM' = [diskLM EXCEPT ![n] = now + 1, ![Root] = now + 1]
  /\ now' = now + 1
  /\ req' = Disturbed /\ prev' = NoKey
  /\ UNCHANGED <<ml, sens, dirs, photos, nextId, calls, pass>>

RemoveDir ==
  /\ now < MaxTime
  /\ \E n \in diskDirs :
       /\ diskDirs' = diskDirs \ {n}
       /\ diskPhotos' = [diskPhotos EXCEPT ![n] = [m \in PhotoNames |-> 0]]
       /\ diskLM' = [diskLM EXCEPT ![n] = 0, ![Root] = now + 1]
  /\ now' = now + 1
  /\ req' = Disturbed /\ prev' = NoKey
  /\ UNCHANGED <<ml, sens, dirs, photos, nextId, calls, pass>>

Env == Tick \/ AddPhoto \/ RemovePhoto \/ ModifyPhoto \/ AddDir \/ RemoveDir


(* ---- listDirectory: the staleness decisions ---- *)
(* l.48 with `<` for `<=` *)
CachedCopyValidStrict(dir, lastModified, knownLastModified, knownLastScanned, t) ==
  /\ knownLastModified # 0 /\ knownLastScanned # 0
  /\ lastModified = knownLastModified
  /\ dir.lastScanned = knownLastScanned
  /\ \/ sens = low
     \/ t - knownLastScanned < cachedFolderTimeout /\ sens = medium

(* l.41-51 without l.43 *)
CachedCopyValidAnyScan(dir, lastModified, knownLastModified, knownLastScanned, t) ==
  /\ knownLastModified # 0 /\ knownLastScanned # 0
  /\ lastModified = knownLastModified
  /\ \/ sens = low
     \/ t - knownLastScanned <= cachedFolderTimeout /\ sens = medium

(* l.41-51: the answer "your cached copy is still valid" (return null).    *)
CachedCopyValid(dir, lastModified, knownLastModified, knownLastScanned, t) ==
  /\ knownLastModified # 0 /\ knownLastScanned # 0
  /\ lastModified = knownLastModified
  /\ dir.lastScanned = knownLastScanned
  /\ \/ sens = low
     \/ t - knownLastScanned <= cachedFolderTimeout /\ sens = medium

(* l.88-89 without l.90 *)
NeedsBackgroundRescanTimeoutOnly(dir, t) ==
  t - dir.lastScanned > cachedFolderTimeout /\ sens >= medium

(* l.88-90: on the fly reindexing *)
NeedsBackgroundRescan(dir, t) ==
  \/ t - dir.lastScanned > cachedFolderTimeout /\ sens >= medium
  \/ sens >= high

(* l.84-96 *)
Decision(dir, lastModified, t) ==
  IF dir.lastModified # lastModified THEN "sync"
  ELSE IF NeedsBackgroundRescan(dir, t) THEN "background"
  ELSE "serve"

StartPass(bg) == [IdlePass EXCEPT !.pc = "scan", !.background = bg]

(* l.84-96 applied to the locals r of caller p *)
Decided(p, r) ==
  LET dec == Decision(r.dir, r.lastModified, now)
  IN /\ req' = [req EXCEPT ![p] =
                  [r EXCEPT !.tDecide = now,
                            !.pc = IF dec = "sync" THEN "wait" ELSE "done",
                            !.result = IF dec = "sync" THEN "none" ELSE "dir"]]
     /\ pass' = [pass EXCEPT ![p] =
                  IF dec = "serve" THEN IdlePass ELSE StartPass(dec = "background")]

(* What the passes of the other callers that are writing the children of  *)
(* row id started from and are heading to.                                 *)
WritePhase == {"loadDirs", "saveDir", "saveDirPhotos", "removeDirs",
               "loadPhotos", "savePhotos", "removePhotos"}
Names(S) == {r.name : r \in S}
During(p, id) ==
  {[preDirs |-> pass[q].preDirs, prePhotos |-> pass[q].prePhotos,
    postDirs |-> Names(Range(pass[q].scannedDirectory.directories)),
    postPhotos |-> Names(Range(pass[q].scannedDirectory.photos))] :
     q \in {x \in Procs \ {p} : pass[x].pc \in WritePhase /\ pass[x].parentDir.id = id}}

(* the error swallowed: the call answers null *)
ThrownAsNull(r) == [r EXCEPT !.pc = "done", !.result = "null"]

(* l.25 throws inside the async function, or the promise returned at l.85  *)
(* or l.100 is rejected: the promise of the call is rejected.              *)
Thrown(r) == [r EXCEPT !.pc = "done", !.result = "error"]

(* The last pass of caller p was a pass of folder t that ran alone, saved   *)
(* the row of t and came to its end, and the filesystem has not changed    *)
(* since that end.                                                         *)
EndedOn(p, t) ==
  /\ req[p].tgt = t /\ req[p].solo /\ ~req[p].changed
  /\ pass[p].pc \in {"done", "failed"} /\ pass[p].parentDir.id # 0

(* the calls are bounded: MaxCalls of them, MaxSoloCalls when one caller    *)
(* makes them all before the clock or the filesystem has moved             *)
CallAllowed(p) ==
  \/ calls < MaxCalls
  \/ calls < MaxSoloCalls /\ now = 1 /\ \A q \in Procs \ {p} : req[q].pc = "idle"

(* l.18-26: a call; fs.statSync of the folder *)
CallStat(p) ==
  /\ CallAllowed(p)
  /\ ~Active(p)
  /\ \E t \in Keys :
       /\ Exists(t)
       /\ LET alone == \A q \in Procs \ {p} : ~Active(q)
          IN req' = [q \in Procs |->
                      IF q = p
                      THEN [IdleReq EXCEPT !.pc = "read", !.tgt = t,
                                           !.lastModified = diskLM[t],
                                           !.solo = alone, !.after = (alone /\ prev = t),
                                           !.afterEnd = (alone /\ EndedOn(p, t))]
                      ELSE [req[q] EXCEPT !.solo = FALSE, !.after = FALSE,
                                          !.afterEnd = FALSE]]
  /\ pass' = [pass EXCEPT ![p] = IdlePass]
  /\ prev' = NoKey
  /\ calls' = calls + 1
  /\ UNCHANGED <<ml, now, sens, diskDirs, diskLM, diskPhotos, dirs, photos, nextId>>

(* l.25: statSync throws, the folder does not exist *)
CallStatFails(p) ==
  /\ CallAllowed(p)
  /\ ~Active(p)
  /\ \E t \in Keys :
       /\ ~Exists(t)
       /\ req' = [q \in Procs |->
                   IF q = p
                   THEN Thrown([IdleReq EXCEPT !.tgt = t])
                   ELSE [req[q] EXCEPT !.solo = FALSE, !.after = FALSE,
                                       !.afterEnd = FALSE]]
  /\ pass' = [pass EXCEPT ![p] = IdlePass]
  /\ prev' = NoKey
  /\ calls' = calls + 1
  /\ UNCHANGED <<ml, now, sens, diskDirs, diskLM, diskPhotos, dirs, photos, nextId>>

(* l.27-36: the row of the folder with its child rows, in one query *)
Loaded(p) ==
  LET dir == FindDir(req[p].tgt, RootPath)
  IN [req[p] EXCEPT !.dir = dir,
        !.directories = IF dir.id = 0 THEN {} ELSE ChildDirs(dir.id),
        !.photos = IF dir.id = 0 THEN {} ELSE PhotosOf(dir.id),
        !.during = IF dir.id = 0 THEN {} ELSE During(p, dir.id)]

(* The knownLastModified and knownLastScanned a caller passes: omitted (0), *)
(* or a value that an answer about this folder can have carried.           *)
KnownValues(r) == {0, r.lastModified, r.dir.lastModified, r.dir.lastScanned}

(* l.39 false, l.100: no row, or a row that was never scanned *)
ReadUnindexed(p) ==
  /\ req[p].pc = "read"
  /\ LET r == Loaded(p)
     IN /\ ~(r.dir.id # 0 /\ r.dir.scanned)
        /\ req' = [req EXCEPT ![p] = [r EXCEPT !.pc = "wait"]]
        /\ pass' = [pass EXCEPT ![p] = StartPass(FALSE)]
  /\ UNCHANGED <<ml, now, sens, diskDirs, diskLM, diskPhotos, dirs, photos, nextId, calls, prev>>

(* l.39-51: return null *)
ReadCached(p) ==
  /\ req[p].pc = "read"
  /\ LET r == Loaded(p)
     IN /\ r.dir.id # 0 /\ r.dir.scanned
        /\ \E klm \in KnownValues(r), kls \in KnownValues(r) :
             /\ CachedCopyValid(r.dir, r.lastModified, klm, kls, now)
             /\ req' = [req EXCEPT ![p] =
                          [r EXCEPT !.known = <<klm, kls>>, !.tCheck = now,
                                    !.pc = "done", !.result = "null"]]
  /\ UNCHANGED <<ml, now, sens, diskDirs, diskLM, diskPhotos, dirs, photos, nextId, calls, pass, prev>>

(* l.39-62: the persisted row is used; with no child folder l.84-96 follow *)
(* without an await                                                        *)
ReadPersisted(p) ==
  /\ req[p].pc = "read"
  /\ LET r == Loaded(p)
     IN /\ r.dir.id # 0 /\ r.dir.scanned
        /\ \E klm \in KnownValues(r), kls \in KnownValues(r) :
             /\ ~CachedCopyValid(r.dir, r.lastModified, klm, kls, now)
             /\ LET r2 == [r EXCEPT !.known = <<klm, kls>>, !.tCheck = now,
                                    !.todo = SortById(r.directories)]
                IN IF r2.todo = <<>>
                   THEN Decided(p, r2)
                   ELSE /\ req' = [req EXCEPT ![p] = [r2 EXCEPT !.pc = "preview"]]
                        /\ UNCHANGED pass
  /\ UNCHANGED <<ml, now, sens, diskDirs, diskLM, diskPhotos, dirs, photos, nextId, calls, prev>>

(* l.62-81: the preview photos of one child folder; after the last, l.84-96 *)
Preview(p) ==
  /\ req[p].pc = "preview"
  /\ LET c == Head(req[p].todo)
         r == [req[p] EXCEPT !.todo = Tail(@),
                             !.previews = @ \cup {[id |-> c.id, photos |-> PreviewOf(c.id),
                                                      isPartial |-> TRUE]}]
     IN IF r.todo = <<>>
        THEN Decided(p, r)
        ELSE /\ req' = [req EXCEPT ![p] = r]
             /\ UNCHANGED pass
  /\ UNCHANGED <<ml, now, sens, diskDirs, diskLM, diskPhotos, dirs, photos, nextId, calls, prev>>


(* ---- indexDirectory ---- *)
(* The folder a finished pass leaves behind for the caller that follows it *)
EndPrev(p) == IF req[p].solo /\ req[p].clean THEN req[p].tgt ELSE NoKey

(* l.202-205: `!=` between a value of the row (loaded from the store, or a *)
(* Utils.clone copy) and a value of the scan: two objects are never the    *)
(* same object, undefined equals undefined.                                *)
LooseNeq(x, y) == ~(x = 0 /\ y = 0)

MetadataDiffers(pm, sm) ==
  \/ LooseNeq(pm.keywords, sm.keywords)
  \/ LooseNeq(pm.cameraData, sm.cameraData)
  \/ LooseNeq(pm.positionData, sm.positionData)
  \/ LooseNeq(pm.size, sm.size)

(* l.182-213: photosToSave and what is left of indexedPhotos *)
RECURSIVE PhotoDiff(_, _, _, _)
PhotoDiff(sp, idx, parentId, acc) ==
  IF sp = <<>> THEN [photosToSave |-> acc, indexedPhotos |-> idx]
  ELSE LET s == Head(sp)
           js == {j \in 1..Len(idx) : idx[j].name = s.name}
           j == IF js = {} THEN 0 ELSE CHOOSE x \in js : \A y \in js : x <= y
           photo == IF j # 0 THEN idx[j]
                    ELSE [id |-> 0, name |-> s.name, directory |-> parentId,
                          metadata |-> s.metadata]
           rest == IF j # 0 THEN SubSeq(idx, 1, j - 1) \o SubSeq(idx, j + 1, Len(idx))
                   ELSE idx
           upd == [photo EXCEPT !.metadata.keywords = s.metadata.keywords,
                                !.metadata.cameraData = s.metadata.cameraData,
                                !.metadata.positionData = s.metadata.positionData,
                                !.metadata.size = s.metadata.size]
       IN PhotoDiff(Tail(sp), rest, parentId,
                    IF MetadataDiffers(photo.metadata, s.metadata)
                    THEN Append(acc, upd) ELSE acc)

(* l.218-220: reject(error).  A promise that resolve() of l.113 has settled *)
(* ignores it; a rejection of the promise of l.92 reaches its catch        *)
(* handler, console.error.                                                 *)
Reject(ps) ==
  IF ps.settled = "pending"
  THEN [ps EXCEPT !.pc = "failed", !.settled = "rejected", !.logged = ps.background]
  ELSE [ps EXCEPT !.pc = "failed"]

(* l.141-159 up to the next await: child i of the scan is looked up by     *)
(* name in indexedDirectories.  A match is spliced out and l.154 then      *)
(* reads directory.parent.id of a row loaded without its parent relation:  *)
(* a TypeError, caught at l.218 after resolve().                           *)
DirLoop(ps, i) ==
  IF i > Len(ps.scannedDirectory.directories)
  THEN [ps EXCEPT !.pc = "removeDirs", !.i = i]
  ELSE IF \E j \in 1..Len(ps.indexedDirectories) :
            ps.indexedDirectories[j].name = ps.scannedDirectory.directories[i].name
       THEN Reject([ps EXCEPT !.i = i])
       ELSE [ps EXCEPT !.pc = "saveDir", !.i = i]

(* l.108 rejects: the folder is gone *)
ScanFails(p) ==
  /\ pass[p].pc = "scan"
  /\ ~Exists(req[p].tgt)
  /\ pass' = [pass EXCEPT ![p] = Reject(@)]
  /\ req' = [req EXCEPT ![p] =
               IF pass[p].background THEN @ ELSE Thrown(@)]
  /\ prev' = EndPrev(p)
  /\ UNCHANGED <<ml, now, sens, diskDirs, diskLM, diskPhotos, dirs, photos, nextId, calls>>

(* l.108-113: the scan, and resolve(scannedDirectory) *)
ScanOk(p) ==
  /\ pass[p].pc = "scan"
  /\ Exists(req[p].tgt)
  /\ pass' = [pass EXCEPT ![p].pc = "findParent", ![p].settled = "resolved",
                          ![p].scannedDirectory = scanDirectory(req[p].tgt)]
  /\ req' = [req EXCEPT ![p] =
               IF pass[p].background THEN [@ EXCEPT !.clean = TRUE]
               ELSE [@ EXCEPT !.clean = TRUE, !.pc = "done", !.result = "scanned"]]
  /\ UNCHANGED <<ml, now, sens, diskDirs, diskLM, diskPhotos, dirs, photos, nextId, calls, prev>>

(* l.120-124 *)
FindParent(p) ==
  /\ pass[p].pc = "findParent"
  /\ pass' = [pass EXCEPT ![p].pc = "saveParent",
                ![p].parentDir = FindDir(pass[p].scannedDirectory.name,
                                         pass[p].scannedDirectory.path)]
  /\ UNCHANGED <<ml, now, sens, diskDirs, diskLM, diskPhotos, dirs, photos, nextId, calls, req, prev>>

(* l.132 left out: a new row keeps scanned = false *)
SavedParentUnscanned(pd, sd, id) ==
  IF pd.id # 0
  THEN [pd EXCEPT !.scanned = TRUE, !.lastModified = sd.lastModified,
                  !.lastScanned = sd.lastScanned]
  ELSE [id |-> id, name |-> sd.name, path |-> sd.path, parent |-> 0, scanned |-> FALSE,
        lastModified |-> sd.lastModified, lastScanned |-> sd.lastScanned]

(* l.128 left out, and a new row saved without its lastModified *)
SavedParentNoModified(pd, sd, id) ==
  IF pd.id # 0
  THEN [pd EXCEPT !.scanned = TRUE, !.lastScanned = sd.lastScanned]
  ELSE [id |-> id, name |-> sd.name, path |-> sd.path, parent |-> 0, scanned |-> TRUE,
        lastModified |-> 0, lastScanned |-> sd.lastScanned]

(* l.126-134 *)
SavedParent(pd, sd, id) ==
  IF pd.id # 0
  THEN [pd EXCEPT !.scanned = TRUE, !.lastModified = sd.lastModified,
                  !.lastScanned = sd.lastScanned]
  ELSE [id |-> id, name |-> sd.name, path |-> sd.path, parent |-> 0, scanned |-> TRUE,
        lastModified |-> sd.lastModified, lastScanned |-> sd.lastScanned]

SaveParent(p) ==
  /\ pass[p].pc = "saveParent"
  /\ LET pd == pass[p].parentDir
         rec == SavedParent(pd, pass[p].scannedDirectory, nextId)
     IN /\ dirs' = {d \in dirs : d.id # rec.id} \cup {rec}
        /\ nextId' = IF pd.id # 0 THEN nextId ELSE nextId + 1
        /\ pass' = [pass EXCEPT ![p].pc = "loadDirs", ![p].parentDir = rec,
                      ![p].writes = @ \cup {<<IF pd.id # 0 THEN "update" ELSE "insert",
                                              "dir", rec.name>>},
                      ![p].preDirs = Names(ChildDirs(rec.id)),
                      ![p].prePhotos = Names(PhotosOf(rec.id))]
  /\ UNCHANGED <<ml, now, sens, diskDirs, diskLM, diskPhotos, photos, calls, req, prev>>

(* l.136-139, then l.141-159 for the first scanned child *)
LoadDirs(p) ==
  /\ pass[p].pc = "loadDirs"
  /\ LET ps == DirLoop([pass[p] EXCEPT !.indexedDirectories =
                           SortById(ChildDirs(pass[p].parentDir.id))], 1)
     IN /\ pass' = [pass EXCEPT ![p] = ps]
        /\ prev' = IF ps.pc = "failed" THEN EndPrev(p) ELSE prev
  /\ UNCHANGED <<ml, now, sens, diskDirs, diskLM, diskPhotos, dirs, photos, nextId, calls, req>>

(* l.161 with true for false *)
ChildRowScanned(c, parentId, id) ==
  [id |-> id, name |-> c.name, path |-> c.path, parent |-> parentId, scanned |-> TRUE,
   lastModified |-> c.lastModified, lastScanned |-> c.lastScanned]

(* l.160-161: the row of a scanned child *)
ChildRow(c, parentId, id) ==
  [id |-> id, name |-> c.name, path |-> c.path, parent |-> parentId, scanned |-> FALSE,
   lastModified |-> c.lastModified, lastScanned |-> c.lastScanned]

(* l.160-162: a scanned child without a row is inserted, scanned = false *)
SaveDir(p) ==
  /\ pass[p].pc = "saveDir"
  /\ LET c == pass[p].scannedDirectory.directories[pass[p].i]
         rec == ChildRow(c, pass[p].parentDir.id, nextId)
     IN /\ dirs' = dirs \cup {rec}
        /\ pass' = [pass EXCEPT ![p].pc = "saveDirPhotos", ![p].d = rec.id,
                      ![p].writes = @ \cup {<<"insert", "dir", rec.name>>}]
  /\ nextId' = nextId + 1
  /\ UNCHANGED <<ml, now, sens, diskDirs, diskLM, diskPhotos, photos, calls, req, prev>>

(* l.163-168, then l.141-159 for the next scanned child.  The photos       *)
(* reference row d: the save throws when that row is gone.                 *)
SaveDirPhotos(p) ==
  /\ pass[p].pc = "saveDirPhotos"
  /\ LET ps == pass[p].scannedDirectory.directories[pass[p].i].photos
         gone == Len(ps) > 0 /\ ~\E d \in dirs : d.id = pass[p].d
         new == {[id |-> nextId + j - 1, name |-> ps[j].name, directory |-> pass[p].d,
                  metadata |-> ps[j].metadata] : j \in 1..Len(ps)}
         nxt == IF gone THEN Reject(pass[p])
                ELSE DirLoop([pass[p] EXCEPT !.writes = @ \cup
                                {<<"insert", "photo", r.name>> : r \in new}],
                             pass[p].i + 1)
     IN /\ photos' = IF gone THEN photos ELSE photos \cup new
        /\ nextId' = IF gone THEN nextId ELSE nextId + Len(ps)
        /\ pass' = [pass EXCEPT ![p] = nxt]
        /\ prev' = IF nxt.pc = "failed" THEN EndPrev(p) ELSE prev
  /\ UNCHANGED <<ml, now, sens, diskDirs, diskLM, diskPhotos, dirs, calls, req>>

(* l.173: the rows left in indexedDirectories go, and their photos with them *)
RemoveDirs(p) ==
  /\ pass[p].pc = "removeDirs"
  /\ LET gone == Range(pass[p].indexedDirectories)
         ids == {r.id : r \in gone}
     IN /\ dirs' = {d \in dirs : d.id \notin ids}
        /\ photos' = {ph \in photos : ph.directory \notin ids}
        /\ pass' = [pass EXCEPT ![p].pc = "loadPhotos",
                      ![p].writes = @ \cup {<<"delete", "dir", r.name>> : r \in gone}]
  /\ UNCHANGED <<ml, now, sens, diskDirs, diskLM, diskPhotos, nextId, calls, req, prev>>

(* l.176-213 *)
LoadPhotos(p) ==
  /\ pass[p].pc = "loadPhotos"
  /\ LET diff == PhotoDiff(pass[p].scannedDirectory.photos,
                           SortById(PhotosOf(pass[p].parentDir.id)),
                           pass[p].parentDir.id, <<>>)
     IN pass' = [pass EXCEPT ![p].pc = "savePhotos",
                   ![p].preRows = PhotosOf(pass[p].parentDir.id),
                   ![p].photosToSave = diff.photosToSave,
                   ![p].indexedPhotos = diff.indexedPhotos]
  /\ UNCHANGED <<ml, now, sens, diskDirs, diskLM, diskPhotos, dirs, photos, nextId, calls, req, prev>>

(* l.214: one save of the whole array; rows without id are inserted, the   *)
(* others written by id.  It throws when the row of the folder is gone.    *)
SavePhotos(p) ==
  /\ pass[p].pc = "savePhotos"
  /\ LET ts == pass[p].photosToSave
         gone == Len(ts) > 0 /\ ~\E d \in dirs : d.id = pass[p].parentDir.id
         news == SelectSeq(ts, LAMBDA r : r.id = 0)
         olds == Range(SelectSeq(ts, LAMBDA r : r.id # 0))
         ins == {[news[j] EXCEPT !.id = nextId + j - 1] : j \in 1..Len(news)}
     IN /\ photos' = IF gone THEN photos
                     ELSE {ph \in photos : ph.id \notin {r.id : r \in olds}}
                          \cup olds \cup ins
        /\ nextId' = IF gone THEN nextId ELSE nextId + Len(news)
        /\ pass' = [pass EXCEPT ![p] =
                      IF gone THEN Reject(@)
                      ELSE [@ EXCEPT !.pc = "removePhotos",
                              !.writes = @ \cup {<<"insert", "photo", r.name>> : r \in ins}
                                           \cup {<<"update", "photo", r.name>> : r \in olds}]]
        /\ prev' = IF gone THEN EndPrev(p) ELSE prev
  /\ UNCHANGED <<ml, now, sens, diskDirs, diskLM, diskPhotos, dirs, calls, req>>

(* l.215: the end of the pass *)
RemovePhotos(p) ==
  /\ pass[p].pc = "removePhotos"
  /\ LET gone == Range(pass[p].indexedPhotos)
     IN /\ photos' = {ph \in photos : ph.id \notin {r.id : r \in gone}}
        /\ pass' = [pass EXCEPT ![p].pc = "done",
                      ![p].writes = @ \cup {<<"delete", "photo", r.name>> : r \in gone}]
  /\ prev' = EndPrev(p)
  /\ UNCHANGED <<ml, now, sens, diskDirs, diskLM, diskPhotos, dirs, nextId, calls, req>>

Step(p) ==
  \/ CallStat(p) \/ CallStatFails(p) \/ ReadUnindexed(p) \/ ReadCached(p)
  \/ ReadPersisted(p) \/ Preview(p)
  \/ ScanFails(p) \/ ScanOk(p) \/ FindParent(p) \/ SaveParent(p)
  \/ LoadDirs(p) \/ SaveDir(p) \/ SaveDirPhotos(p) \/ RemoveDirs(p)
  \/ LoadPhotos(p) \/ SavePhotos(p) \/ RemovePhotos(p)

(* Callers whose calls and passes interleave at every await *)
Next == Env \/ \E p \in Procs : Step(p)
Spec == Init /\ [][Next]_vars

(* One caller, whose next call comes after its previous pass has ended *)
NextSerial == Env \/ Step(1)
SpecSerial == Init /\ [][NextSerial]_vars

(* ======================= the claims ======================= *)
(* The call of p has passed the read of l.27-36 and found a scanned row *)
FoundScanned(p) ==
  /\ req[p].pc \notin {"idle", "read"}
  /\ req[p].dir.id # 0 /\ req[p].dir.scanned

(* The caller's known pair is the persisted pair and the policy of the    *)
(* spec, 4.4, answers "cached copy still valid"                            *)
CachedAnswerApplies(p) ==
  /\ req[p].known = <<req[p].dir.lastModified, req[p].dir.lastScanned>>
  /\ \/ sens = low
     \/ sens = medium /\ req[p].tCheck - req[p].dir.lastScanned <= cachedFolderTimeout

PassEnds(p) == PassBusy(p) /\ pass'[p].pc \in {"done", "failed"}

(* C1: at most one reconciliation pass is in progress for a directory      *)
(* path at any time: two passes for the same path never overlap.           *)
C1_OnePassPerPath ==
  \A p, q \in Procs :
    (p # q /\ PassBusy(p) /\ PassBusy(q)) => req[p].tgt # req[q].tgt

(* C2: when a pass that wrote the row of its directory ends, the names of  *)
(* the persisted child directories equal the names of the scanned child    *)
(* directories, and likewise for the photos.                               *)
ChildrenReconciled(p) ==
  LET pd == pass[p].parentDir
      sd == pass[p].scannedDirectory
  IN /\ Names(ChildDirs(pd.id)) = Names(Range(sd.directories))
     /\ Names(PhotosOf(pd.id)) = Names(Range(sd.photos))

C2_ChildrenReconciled ==
  [][\A p \in Procs :
       (PassEnds(p) /\ pass'[p].parentDir.id # 0) => ChildrenReconciled(p)']_vars

(* C3: a pass writes a photo update only for a photo one of whose          *)
(* keywords, cameraData, positionData, size differs in value from the      *)
(* persisted row; and a pass over a directory that lost exactly one photo, *)
(* everything else equal, writes exactly the delete of that photo's row.   *)
PhotoWrites(p) == {w \in pass[p].writes : w[2] = "photo"}
ValueDiffers(r, s) ==
  \/ r.metadata.keywords # s.metadata.keywords
  \/ r.metadata.cameraData # s.metadata.cameraData
  \/ r.metadata.positionData # s.metadata.positionData
  \/ r.metadata.size # s.metadata.size
OnePhotoLost(p) ==
  LET rows == pass[p].preRows
      scanned == Range(pass[p].scannedDirectory.photos)
  IN /\ Names(scanned) \subseteq Names(rows)
     /\ Cardinality(Names(rows) \ Names(scanned)) = 1
     /\ Cardinality(rows) = Cardinality(Names(rows))
     /\ \A s \in scanned : \E r \in rows : r.name = s.name /\ ~ValueDiffers(r, s)
     /\ pass[p].preDirs = Names(Range(pass[p].scannedDirectory.directories))

C3_OnlyChangedPhotosWritten ==
  \A p \in Procs :
    pass[p].pc = "done" =>
      LET rows == pass[p].preRows
          scanned == Range(pass[p].scannedDirectory.photos)
      IN /\ \A w \in PhotoWrites(p) :
              w[1] = "update" =>
                \E r \in rows, s \in scanned :
                  r.name = w[3] /\ s.name = w[3] /\ ValueDiffers(r, s)
         /\ OnePhotoLost(p) =>
              PhotoWrites(p) = {<<"delete", "photo", n>> : n \in Names(rows) \ Names(scanned)}

(* C4: a call that finds the directory persisted and scanned with a        *)
(* lastModified other than the one on disk never answers "cached copy      *)
(* still valid" (null) and never returns the persisted tree.               *)
C4_MismatchRescans ==
  \A p \in Procs :
    (FoundScanned(p) /\ req[p].dir.lastModified # req[p].lastModified)
      => req[p].result \notin {"null", "dir"}

(* C5: in the signature-match state (disk lastModified = persisted         *)
(* lastModified, the caller's known pair = the persisted pair), with       *)
(* sensitivity low, or medium and now - lastScanned <= cachedFolderTimeout,*)
(* the call returns null, starts no pass and writes nothing.               *)
C5_CachedCopyStillValid ==
  \A p \in Procs :
    (/\ FoundScanned(p)
     /\ req[p].lastModified = req[p].dir.lastModified
     /\ CachedAnswerApplies(p))
      => /\ req[p].pc = "done" /\ req[p].result = "null"
         /\ pass[p].pc = "idle" /\ pass[p].writes = {}

C5_Witness ==
  \E p \in Procs :
    /\ FoundScanned(p) /\ sens = medium
    /\ req[p].lastModified = req[p].dir.lastModified
    /\ CachedAnswerApplies(p)
    /\ req[p].result = "null"

(* C6: a call that finds the directory persisted with the lastModified of  *)
(* the disk, and to which the cached answer does not apply, returns the    *)
(* persisted tree; it starts a rescan exactly when (sensitivity >= medium  *)
(* and now - lastScanned > cachedFolderTimeout) or sensitivity = high; the *)
(* rescan is a background one, whose caller has its result already.        *)
C6_ServePersisted ==
  \A p \in Procs :
    /\ (/\ FoundScanned(p) /\ req[p].pc # "preview"
        /\ req[p].lastModified = req[p].dir.lastModified
        /\ ~CachedAnswerApplies(p)
        /\ req[p].result # "null")
         => /\ req[p].pc = "done" /\ req[p].result = "dir"
            /\ (pass[p].pc # "idle") <=>
                 \/ sens >= medium /\ req[p].tDecide - req[p].dir.lastScanned > cachedFolderTimeout
                 \/ sens = high
            /\ pass[p].pc # "idle" => pass[p].background
            /\ sens = low => pass[p].pc = "idle"
    /\ (pass[p].pc # "idle" /\ pass[p].background)
         => req[p].pc = "done" /\ req[p].result = "dir"

C6_Witness ==
  \E p \in Procs :
    /\ sens = medium
    /\ pass[p].pc = "scan" /\ pass[p].background
    /\ req[p].pc = "done" /\ req[p].result = "dir"

(* C7: when the pass of a call that found no row for its directory ends,   *)
(* the call has returned the scanned tree and the store holds a row for    *)
(* the directory with scanned = true and the lastModified and lastScanned  *)
(* of that scan.                                                           *)
C7_UnindexedScannedAndPersisted ==
  [][\A p \in Procs :
       (PassEnds(p) /\ req[p].dir.id = 0 /\ pass'[p].parentDir.id # 0)
         => /\ req'[p].result = "scanned"
            /\ \E d \in dirs' :
                 /\ d.name = req[p].tgt /\ d.path = RootPath /\ d.scanned
                 /\ d.lastModified = pass'[p].scannedDirectory.lastModified
                 /\ d.lastScanned = pass'[p].scannedDirectory.lastScanned]_vars

(* C8: a call on a directory that directly follows a completed pass on the *)
(* same directory, with no filesystem change since that pass's scan and    *)
(* sensitivity low, starts no pass and so writes nothing, whatever known   *)
(* pair the caller passes.                                                 *)
C8_SecondRunWritesNothing ==
  \A p \in Procs :
    (req[p].after /\ sens = low)
      => /\ pass[p].pc = "idle" /\ pass[p].writes = {}
         /\ req[p].pc # "wait"
         /\ req[p].pc = "done" => req[p].result \in {"dir", "null"}

C8_Witness ==
  \E p \in Procs :
    /\ req[p].after /\ sens = low
    /\ req[p].pc = "done" /\ req[p].result = "dir"
    /\ req[p].known = <<0, 0>>

(* C9: a call that returns the persisted tree while a pass is writing the  *)
(* children of the same directory sees either the child set the pass       *)
(* started from or the child set it is heading to.                         *)
C9_NoHalfMigratedRead ==
  \A p \in Procs :
    req[p].result = "dir" =>
      \A w \in req[p].during :
        \/ Names(req[p].directories) = w.preDirs /\ Names(req[p].photos) = w.prePhotos
        \/ Names(req[p].directories) = w.postDirs /\ Names(req[p].photos) = w.postPhotos

(* C10: the store holds at most one directory row per (name, path) and at  *)
(* most one photo row per (name, directory).                               *)
C10_UniqueKeys ==
  /\ \A d1, d2 \in dirs : (d1.name = d2.name /\ d1.path = d2.path) => d1 = d2
  /\ \A p1, p2 \in photos :
       (p1.name = p2.name /\ p1.directory = p2.directory) => p1 = p2

(* C11: a background rescan is detached from the call that started it: the *)
(* call has returned the persisted tree while the rescan is still to scan; *)
(* a failure of the rescan, in the scan or in a store write, is logged;    *)
(* and a call fails only on its own stat or on the scan it waits for,      *)
(* never on a background rescan.                                           *)
C11_BackgroundDetached ==
  \A p \in Procs :
    /\ (pass[p].pc # "idle" /\ pass[p].background)
         => req[p].pc = "done" /\ req[p].result = "dir"
    /\ (pass[p].pc = "failed" /\ pass[p].background) => pass[p].logged
    /\ req[p].result = "error"
         => \/ pass[p].pc = "idle"
            \/ ~pass[p].background /\ pass[p].settled = "rejected"

(* C12 as stated: a call whose directory cannot be stat'ed, or cannot be   *)
(* scanned by the pass the call started, fails.                            *)
C12_UnscannableFails ==
  \A p \in Procs :
    (req[p].pc = "done" /\ pass[p].settled = "rejected") => req[p].result = "error"

(* C12: a call whose directory cannot be stat'ed, or cannot be scanned by  *)
(* the scan the call waits for (l.85, l.100), fails: it returns neither    *)
(* null nor a tree, and its pass, if any, has written nothing.  When the   *)
(* scan that fails is the background rescan of l.92, the call has returned *)
(* the persisted tree.                                                     *)
StatFailed(p) == req[p].pc = "done" /\ req[p].lastModified = 0
AwaitedScanFailed(p) == pass[p].settled = "rejected" /\ ~pass[p].background
C12_RequestFatal ==
  \A p \in Procs :
    /\ StatFailed(p) => req[p].result = "error" /\ pass[p].pc = "idle"
    /\ AwaitedScanFailed(p)
         => /\ req[p].pc = "done" /\ req[p].result = "error"
            /\ pass[p].pc = "failed" /\ pass[p].writes = {}
    /\ (pass[p].settled = "rejected" /\ pass[p].background)
         => req[p].result = "dir" /\ pass[p].writes = {}
    /\ req[p].result = "error" => pass[p].writes = {}

C12_Witness ==
  \E p \in Procs : AwaitedScanFailed(p) /\ req[p].result = "error"

(* ======================================================================= *)
(* MetadataLoader (src/src/backend/model/fileaccess/MetadataLoader.ts):    *)
(* loadPhotoMetadata and loadVideoMetadata.                                *)
(*                                                                         *)
(* A call works on locals only; its steps are the stretches of code        *)
(* between its try blocks.  The file it is given is the input: what each   *)
(* library call (open/read, statSync, IptcParser.parse, exifr.parse,       *)
(* imageSize, ffprobe, existsSync, exifr.sidecar) yields for it.           *)
(* Times are in hours; a time zone offset is a number of hours.            *)
(* ======================================================================= *)

(* an optional value: undefined, or the value *)
None == <<>>
Some(v) == <<v>>
Has(o) == o # <<>>
Val(o) == o[1]
(* a || b on optional values *)
Or(a, b) == IF Has(a) THEN a ELSE b
Max(a, b) == IF a > b THEN a ELSE b

(* A string is the sequence of its characters, "NUL" the character \0 and  *)
(* " " a white space; the empty string is falsy.                           *)
Truthy(o) == Has(o) /\ Val(o) # <<>>
(* .replace(/\0/g, '') *)
RemoveNul(str) == SelectSeq(str, LAMBDA c : c # "NUL")
(* .trim() *)
RECURSIVE TrimStart(_)
TrimStart(str) == IF str # <<>> /\ Head(str) = " " THEN TrimStart(Tail(str)) ELSE str
RECURSIVE TrimEnd(_)
TrimEnd(str) ==
  IF str # <<>> /\ str[Len(str)] = " " THEN TrimEnd(SubSeq(str, 1, Len(str) - 1)) ELSE str
Trim(str) == TrimEnd(TrimStart(str))

(* Config.Faces *)
FacesEnabled == TRUE
keywordsToPersons == TRUE

(* l.179-183 and l.170-174: the record a photo load starts from, and the   *)
(* shared record returned when the load gives up.  l.27-37 for a video.    *)
NewPhotoMetadata ==
  [size |-> [width |-> Some(0), height |-> Some(0)], creationDate |-> 0, fileSize |-> 0,
   creationDateOffset |-> None, keywords |-> None, rating |-> None, faces |-> None,
   title |-> None, caption |-> None, cameraData |-> None, positionData |-> None,
   country |-> None, state |-> None, city |-> None,
   duration |-> 0, bitRate |-> 0]
EMPTY_METADATA ==
  [size |-> [width |-> Some(0), height |-> Some(0)], creationDate |-> 0, fileSize |-> 0,
   creationDateOffset |-> None, keywords |-> None, rating |-> None, faces |-> None,
   title |-> None, caption |-> None, cameraData |-> None, positionData |-> None,
   country |-> None, state |-> None, city |-> None,
   duration |-> 0, bitRate |-> 0]
NewVideoMetadata ==
  [size |-> [width |-> Some(1), height |-> Some(1)], creationDate |-> 0, fileSize |-> 0,
   creationDateOffset |-> None, keywords |-> None, rating |-> None, faces |-> None,
   title |-> None, caption |-> None, cameraData |-> None, positionData |-> None,
   country |-> None, state |-> None, city |-> None,
   duration |-> 0, bitRate |-> 0]

(* l.297-301, l.146-150, l.590-594: push the keywords that indexOf does    *)
(* not find                                                                *)
RECURSIVE PushNew(_, _)
PushNew(kws, items) ==
  IF items = <<>> THEN kws
  ELSE PushNew(IF \E i \in 1..Len(kws) : kws[i] = Head(items)
               THEN kws ELSE Append(kws, Head(items)),
               Tail(items))

(* l.294-301: metadata.keywords, created when undefined, with the list merged *)
MergeKeywords(m, items) ==
  [m EXCEPT !.keywords = Some(PushNew(IF Has(m.keywords) THEN Val(m.keywords) ELSE <<>>, items))]

(* l.319, l.363, l.398: x = x || {} and one field set *)
WithField(o, f) == Some((IF Has(o) THEN Val(o) ELSE {}) \cup {f})

(* l.199-202: the timestamp read at the offset, at +00:00 when the offset  *)
(* is undefined.  The caller has a timestamp: undefined.replace throws.    *)
timestampToMS(timestamp, offset) ==
  Val(timestamp) - (IF Has(offset) THEN Val(offset) ELSE 0)

(* l.204-223.  Date.parse is given the raw EXIF strings, which are not in  *)
(* the ISO format: whether it reads them is up to the engine (lenient).    *)
(* Date.parse(undefined) is NaN, and every comparison with NaN is false.   *)
getTimeOffsetByGPSStamp(timestamp, e) ==
  IF e.hasGps /\ Has(e.gpsStamp)
  THEN IF Has(timestamp) /\ e.lenientDateParse
       THEN LET offsetHours == Val(timestamp) - Val(e.gpsStamp)
            IN IF -12 <= offsetHours /\ offsetHours <= 14 THEN Some(offsetHours) ELSE None
       ELSE None
  ELSE None

(* l.330-361: the creation timestamp.  threw: timestampToMS was given an   *)
(* undefined timestamp (l.348 passes DateTimeOriginal in the CreateDate    *)
(* branch).                                                                *)
ExifTimestamps(m, e) ==
  IF Has(e.DateTimeOriginal)
  THEN IF Has(e.OffsetTimeOriginal)
       THEN [threw |-> FALSE,
             m |-> [m EXCEPT !.creationDate = timestampToMS(e.DateTimeOriginal, e.OffsetTimeOriginal),
                             !.creationDateOffset = e.OffsetTimeOriginal]]
       ELSE LET alt_offset == Or(e.OffsetTimeDigitized,
                                 Or(e.OffsetTime, getTimeOffsetByGPSStamp(e.DateTimeOriginal, e)))
            IN [threw |-> FALSE,
                m |-> [m EXCEPT !.creationDate = timestampToMS(e.DateTimeOriginal, alt_offset),
                                !.creationDateOffset = alt_offset]]
  ELSE IF Has(e.CreateDate)
  THEN IF Has(e.OffsetTimeDigitized)
       THEN [threw |-> FALSE,
             m |-> [m EXCEPT !.creationDate = timestampToMS(e.CreateDate, e.OffsetTimeDigitized),
                             !.creationDateOffset = e.OffsetTimeDigitized]]
       ELSE LET alt_offset == Or(e.OffsetTimeOriginal,
                                 Or(e.OffsetTime, getTimeOffsetByGPSStamp(e.DateTimeOriginal, e)))
            IN IF Has(e.DateTimeOriginal)
               THEN [threw |-> FALSE,
                     m |-> [m EXCEPT !.creationDate = timestampToMS(e.DateTimeOriginal, alt_offset),
                                     !.creationDateOffset = alt_offset]]
               ELSE [threw |-> TRUE, m |-> m]
  ELSE IF e.hasIfd0 /\ Has(e.ModifyDate)
  THEN IF Has(e.OffsetTime)
       THEN [threw |-> FALSE,
             m |-> [m EXCEPT !.creationDate = timestampToMS(e.ModifyDate, e.OffsetTime),
                             !.creationDateOffset = e.OffsetTime]]
       ELSE LET alt_offset == Or(e.DateTimeOriginal,
                                 Or(e.OffsetTimeDigitized, getTimeOffsetByGPSStamp(e.ModifyDate, e)))
            IN [threw |-> FALSE,
                m |-> [m EXCEPT !.creationDate = timestampToMS(e.ModifyDate, alt_offset),
                                !.creationDateOffset = alt_offset]]
  ELSE [threw |-> FALSE, m |-> m]

(* l.305-327: the ifd0 section (the orientation is a local of ExifSection) *)
Ifd0Section(m, e) ==
  LET w == IF e.ImageWidth # 0 /\ Val(m.size.width) <= 0
           THEN [m EXCEPT !.size.width = Some(e.ImageWidth)] ELSE m
      h == IF e.ImageHeight # 0 /\ Val(w.size.height) <= 0
           THEN [w EXCEPT !.size.height = Some(e.ImageHeight)] ELSE w
  IN IF e.Make THEN [h EXCEPT !.cameraData = WithField(@, "make")] ELSE h

(* l.362-393: the exif section after the timestamps *)
ExifCamera(m, e) ==
  LET l == IF e.LensModel THEN [m EXCEPT !.cameraData = WithField(@, "lens")] ELSE m
      w == IF e.ExifImageWidth # 0 /\ Val(l.size.width) <= 0
           THEN [l EXCEPT !.size.width = Some(e.ExifImageWidth)] ELSE l
  IN IF e.ExifImageHeight # 0 /\ Val(w.size.height) <= 0
     THEN [w EXCEPT !.size.height = Some(e.ExifImageHeight)] ELSE w

(* l.397-419: GPSData has a field when latitude or longitude is a float;   *)
(* an empty GPSData takes the whole positionData with it                   *)
GpsSection(m, e) ==
  IF e.latlong THEN [m EXCEPT !.positionData = WithField(@, "GPSData")]
  ELSE [m EXCEPT !.positionData = None, !.country = None, !.state = None, !.city = None]

(* l.424-433: imageSize(fullPath), or at least 1 when it throws *)
FixSize(m, info) ==
  IF Val(m.size.width) <= 0 \/ Val(m.size.height) <= 0
  THEN IF Has(info)
       THEN [m EXCEPT !.size = [width |-> Some(Val(info).width), height |-> Some(Val(info).height)]]
       ELSE [m EXCEPT !.size = [width |-> Some(Max(Val(m.size.width), 1)),
                                height |-> Some(Max(Val(m.size.height), 1))]]
  ELSE m

(* l.437-443 *)
SwapSize(m) ==
  [m EXCEPT !.size = [width |-> m.size.height, height |-> m.size.width]]

(* l.449-454 *)
XmpRating(m, e) ==
  IF Has(e.Rating) /\ Val(e.Rating) # 0
  THEN [m EXCEPT !.rating = IF Val(e.Rating) < 0 THEN Some(0) ELSE e.Rating]
  ELSE m

(* l.553-558: splice(indexOf(name), 1) for every face *)
RECURSIVE RemoveFaces(_, _)
RemoveFaces(kws, names) ==
  IF names = <<>> THEN kws
  ELSE LET at == {i \in 1..Len(kws) : kws[i] = Head(names)}
           j == IF at = {} THEN 0 ELSE CHOOSE x \in at : \A y \in at : x <= y
       IN RemoveFaces(IF j = 0 THEN kws
                      ELSE SubSeq(kws, 1, j - 1) \o SubSeq(kws, j + 1, Len(kws)),
                      Tail(names))

(* Math.round(ratio * size) and Math.abs.  A ratio is a number of tenths;   *)
(* with the sizes of the files below no product is within a float error of *)
(* a half, so the rounding is the one of the exact product.                *)
RoundRatio(n, size) == (2 * n * size + 10) \div 20
Abs(n) == IF n < 0 THEN -n ELSE n

(* l.466-500 *)
createFaceBox(w, h, x, y, orientation, size) ==
  LET r == IF 4 < orientation
           THEN [w |-> h, h |-> w, x |-> y, y |-> x]
           ELSE [w |-> w, h |-> h, x |-> x, y |-> y]
      swapX == IF orientation \in {2, 6} \/ orientation \in {3, 7} THEN 1 ELSE 0
      swapY == IF orientation \in {3, 7} \/ orientation \in {4, 8} THEN 1 ELSE 0
  IN [width |-> RoundRatio(r.w, Val(size.width)),
      height |-> RoundRatio(r.h, Val(size.height)),
      left |-> RoundRatio(Abs(r.x - 10 * swapX), Val(size.width)),
      top |-> RoundRatio(Abs(r.y - 10 * swapY), Val(size.height))]

(* Math.round(Math.max(0, a - b / 2)) *)
RoundedCorner(a, b) == IF 2 * a - b <= 0 THEN 0 ELSE (2 * a - b + 1) \div 2
CornerBoxUnclamped(box) ==
  [box EXCEPT !.left = (2 * box.left - box.width + 1) \div 2,
              !.top = (2 * box.top - box.height + 1) \div 2]
(* l.541-543: convert center base box to corner based box *)
CornerBox(box) ==
  [box EXCEPT !.left = RoundedCorner(box.left, box.width),
              !.top = RoundedCorner(box.top, box.height)]

(* l.461-547: the faces pushed, one for every region of type Face with a name *)
FaceList(e, orientation, size) ==
  LET named == SelectSeq(e.Regions, LAMBDA r : r.Type = "Face" /\ r.Name # <<>>)
  IN [i \in 1..Len(named) |->
        [name |-> named[i].Name,
         box |-> CornerBox(createFaceBox(named[i].w, named[i].h, named[i].x, named[i].y,
                                         orientation, size))]]

(* l.456-561.  With metadata.keywords undefined l.554 throws, after l.550. *)
FaceRegions(m, e, orientation) ==
  LET faces == FaceList(e, orientation, m.size)
      names == [i \in 1..Len(faces) |-> faces[i].name]
  IN IF FacesEnabled /\ Len(e.Regions) > 0 /\ Len(faces) > 0
     THEN IF keywordsToPersons /\ Has(m.keywords)
          THEN [m EXCEPT !.faces = Some(faces),
                         !.keywords = Some(RemoveFaces(Val(m.keywords), names))]
          ELSE [m EXCEPT !.faces = Some(faces)]
     ELSE m

(* l.284-564: one try block.  exifr.parse rejects, or yields undefined and *)
(* l.290 throws, or a throw of l.348 ends the block where it stands.       *)
ExifSection(m, f) ==
  LET e == f.exif
      orientation == IF e.hasIfd0 /\ e.Orientation # 0 THEN e.Orientation ELSE 1
      dc == IF Len(e.subject) > 0 THEN MergeKeywords(m, e.subject) ELSE m
      ifd0 == IF e.hasIfd0 THEN Ifd0Section(dc, e) ELSE dc
      ts == IF e.hasExif THEN ExifTimestamps(ifd0, e) ELSE [threw |-> FALSE, m |-> ifd0]
      ex == IF e.hasExif THEN ExifCamera(ts.m, e) ELSE ts.m
      gps == IF e.hasGps THEN GpsSection(ex, e) ELSE ex
      fixed == FixSize(gps, f.imageSize)
      turned == IF 4 < orientation THEN SwapSize(fixed) ELSE fixed
  IN IF e.parse # "ok" THEN m
     ELSE IF ts.threw THEN ts.m
     ELSE FaceRegions(XmpRating(turned, e), e, orientation)

(* l.246-282.  positionData holds the names of its fields; country, state *)
(* and city hold the values of positionData.country, .state and .city.     *)
IptcSection(m, f) ==
  LET d == f.iptc
      co == IF Truthy(d.country_or_primary_location_name)
            THEN [m EXCEPT !.positionData = WithField(@, "country"),
                           !.country = Some(Trim(RemoveNul(Val(d.country_or_primary_location_name))))]
            ELSE m
      st == IF Truthy(d.province_or_state)
            THEN [co EXCEPT !.positionData = WithField(@, "state"),
                            !.state = Some(Trim(RemoveNul(Val(d.province_or_state))))]
            ELSE co
      c == IF Truthy(d.city)
           THEN [st EXCEPT !.positionData = WithField(@, "city"),
                           !.city = Some(Trim(RemoveNul(Val(d.city))))]
           ELSE st
      t == IF Truthy(d.object_name)
           THEN [c EXCEPT !.title = Some(Trim(RemoveNul(Val(d.object_name))))] ELSE c
      a == IF Truthy(d.caption)
           THEN [t EXCEPT !.caption = Some(Trim(RemoveNul(Val(d.caption))))] ELSE t
      k == IF Has(d.keywords) THEN [a EXCEPT !.keywords = d.keywords] ELSE a
  IN IF d.throws THEN m
     ELSE IF Has(d.date_time) THEN [k EXCEPT !.creationDate = Val(d.date_time)] ELSE k

(* l.582-600, l.139-156: one candidate path.  threw: exifr.sidecar         *)
(* rejects, or the data has no dc or no xmp namespace to read from.        *)
MergeSidecar(m, sc) ==
  IF ~sc.exists \/ sc.parse = "undefined" THEN [threw |-> FALSE, m |-> m]
  ELSE IF sc.parse = "throws" \/ ~sc.hasDc THEN [threw |-> TRUE, m |-> m]
  ELSE LET k == IF Has(sc.subject) THEN MergeKeywords(m, Val(sc.subject)) ELSE m
       IN IF ~sc.hasXmp THEN [threw |-> TRUE, m |-> k]
          ELSE [threw |-> FALSE,
                m |-> IF Has(sc.Rating) THEN [k EXCEPT !.rating = sc.Rating] ELSE k]

(* l.56-90: the first stream with a width.  0 when there is none.          *)
SelectedStream(streams) ==
  LET ws == {i \in 1..Len(streams) : streams[i].width # 0}
  IN IF ws = {} THEN 0 ELSE CHOOSE i \in ws : \A j \in ws : i <= j

(* l.58-84 for that stream *)
StreamSize(m, s) ==
  LET sized == IF s.rotation % 90 = 0 /\ (s.rotation \div 90) % 2 = 1
               THEN [m EXCEPT !.size = [width |-> s.height, height |-> Some(s.width)]]
               ELSE [m EXCEPT !.size = [width |-> Some(s.width), height |-> s.height]]
      timed == IF Has(s.duration) THEN [sized EXCEPT !.duration = Val(s.duration)] ELSE sized
  IN IF Has(s.bit_rate) THEN [timed EXCEPT !.bitRate = Val(s.bit_rate)] ELSE timed

(* l.96-119: the format section *)
FormatSection(m, fmt) ==
  LET d == IF m.duration = 0 /\ Has(fmt.duration) THEN [m EXCEPT !.duration = Val(fmt.duration)] ELSE m
      b == IF Has(fmt.bit_rate) THEN [d EXCEPT !.bitRate = Val(fmt.bit_rate)] ELSE d
  IN IF fmt.hasTags /\ Has(fmt.creation_time)
     THEN [b EXCEPT !.creationDate = Val(fmt.creation_time)] ELSE b

(* l.55-126: one try block; stream.tags undefined makes l.86 throw, and    *)
(* the format section is skipped.  creation_time: what Date.parse makes of *)
(* the tag, undefined when it is missing or unparseable.                   *)
StreamsSection(m, f) ==
  LET i == SelectedStream(f.streams)
      s == f.streams[i]
      sz == StreamSize(m, s)
  IN IF i = 0 THEN FormatSection(m, f.format)
     ELSE IF ~s.hasTags THEN sz
     ELSE FormatSection(IF Has(s.creation_time)
                        THEN [sz EXCEPT !.creationDate = Val(s.creation_time)] ELSE sz,
                        f.format)

(* ---- the files given to the loader ---- *)
MaxSidecars == 2

(* l.574-579, l.131-136: the candidate paths, in the order they are probed *)
sidecarPaths == <<"full.xmp", "full.XMP", "name.xmp", "name.XMP">>

NoSidecar ==
  [exists |-> FALSE, parse |-> "ok", hasDc |-> TRUE, subject |-> None,
   hasXmp |-> TRUE, Rating |-> None]
SidecarKinds ==
  {NoSidecar,
   [NoSidecar EXCEPT !.exists = TRUE, !.parse = "throws"],
   [NoSidecar EXCEPT !.exists = TRUE, !.parse = "undefined"],
   [NoSidecar EXCEPT !.exists = TRUE, !.subject = Some(<<<<"s", "1">>, <<"k", "1">>>>), !.Rating = Some(4)],
   [NoSidecar EXCEPT !.exists = TRUE, !.subject = Some(<<<<"s", "2">>>>), !.Rating = Some(9)],
   [NoSidecar EXCEPT !.exists = TRUE, !.Rating = Some(-2)],
   [NoSidecar EXCEPT !.exists = TRUE, !.subject = Some(<<<<"s", "3">>>>), !.hasXmp = FALSE]}
SidecarSets ==
  {s \in [1..Len(sidecarPaths) -> SidecarKinds] :
     Cardinality({i \in 1..Len(sidecarPaths) : s[i].exists}) <= MaxSidecars}

DefaultIptc ==
  [throws |-> FALSE, country_or_primary_location_name |-> None, province_or_state |-> None,
   city |-> None, object_name |-> None, caption |-> None, keywords |-> None, date_time |-> None]
DefaultExif ==
  [parse |-> "ok", subject |-> <<>>,
   hasIfd0 |-> TRUE, ImageWidth |-> 4, ImageHeight |-> 3, Orientation |-> 0,
   ModifyDate |-> None, Make |-> TRUE,
   hasExif |-> TRUE, DateTimeOriginal |-> Some(20), CreateDate |-> None,
   OffsetTimeOriginal |-> None, OffsetTimeDigitized |-> None, OffsetTime |-> None,
   LensModel |-> TRUE, ExifImageWidth |-> 0, ExifImageHeight |-> 0,
   hasGps |-> FALSE, gpsStamp |-> None, lenientDateParse |-> FALSE, latlong |-> FALSE,
   Rating |-> None, Regions |-> <<>>]
(* a region of type Face: the box {w:0.2, h:0.1, x:0.5, y:0.5} under a name *)
FaceOf(n) == [Name |-> n, Type |-> "Face", w |-> 2, h |-> 1, x |-> 5, y |-> 5]
DefaultPhoto ==
  [kind |-> "photo", open |-> "ok", mtime |-> Some(5), iptc |-> DefaultIptc,
   exif |-> DefaultExif, imageSize |-> Some([width |-> 8, height |-> 6]),
   sidecars |-> [i \in 1..Len(sidecarPaths) |-> NoSidecar]]

(* photos whose header cannot be read *)
UnreadablePhotos ==
  {[DefaultPhoto EXCEPT !.open = o, !.sidecars = s] :
     o \in {"openFails", "readFails"}, s \in SidecarSets}

(* photos that differ in their timestamp tags *)
GpsKinds ==
  {[hasGps |-> FALSE, gpsStamp |-> None, lenientDateParse |-> FALSE, latlong |-> FALSE],
   [hasGps |-> TRUE, gpsStamp |-> None, lenientDateParse |-> FALSE, latlong |-> FALSE],
   [hasGps |-> TRUE, gpsStamp |-> Some(16), lenientDateParse |-> FALSE, latlong |-> TRUE],
   [hasGps |-> TRUE, gpsStamp |-> Some(16), lenientDateParse |-> TRUE, latlong |-> TRUE]}
TimedPhotos ==
  {[DefaultPhoto EXCEPT !.mtime = mt, !.exif =
      [DefaultExif EXCEPT !.hasExif = x, !.DateTimeOriginal = dto, !.CreateDate = cd,
                          !.ModifyDate = md, !.OffsetTimeOriginal = oto,
                          !.OffsetTimeDigitized = otd, !.OffsetTime = ot,
                          !.hasGps = g.hasGps, !.gpsStamp = g.gpsStamp,
                          !.lenientDateParse = g.lenientDateParse, !.latlong = g.latlong]] :
     mt \in {None, Some(5)}, x \in BOOLEAN, dto \in {None, Some(20)}, cd \in {None, Some(30)},
     md \in {None, Some(40)}, oto \in {None, Some(1)}, otd \in {None, Some(2)},
     ot \in {None, Some(3)}, g \in GpsKinds}

(* photos that differ in their dimension tags *)
SizedPhotos ==
  {[DefaultPhoto EXCEPT !.imageSize = info, !.exif =
      [DefaultExif EXCEPT !.parse = ps, !.hasIfd0 = i0, !.ImageWidth = d[1], !.ImageHeight = d[2],
                          !.ExifImageWidth = x[1], !.ExifImageHeight = x[2],
                          !.Orientation = o, !.DateTimeOriginal = t[1], !.CreateDate = t[2]]] :
     info \in {None, Some([width |-> 8, height |-> 6])},
     ps \in {"ok", "throws", "undefined"}, i0 \in BOOLEAN,
     d \in {<<0, 0>>, <<4, 3>>, <<4, 0>>}, x \in {<<0, 0>>, <<5, 7>>}, o \in 0..8,
     t \in {<<Some(20), None>>, <<None, Some(30)>>}}

(* photos that differ in their keywords, rating, faces and sidecars *)
IptcKinds ==
  {DefaultIptc,
   [DefaultIptc EXCEPT !.throws = TRUE],
   [DefaultIptc EXCEPT !.keywords = Some(<<<<"k", "1">>, <<"k", "1">>>>)],
   [DefaultIptc EXCEPT !.keywords = Some(<<<<"k", "1">>, <<"k", "2">>>>), !.city = Some(<<"c">>),
                       !.object_name = Some(<<"t">>), !.caption = Some(<<>>),
                       !.date_time = Some(9)],
   [DefaultIptc EXCEPT !.keywords = Some(<<<<"k", "1", "NUL">>, <<" ", "k", "2">>>>),
                       !.country_or_primary_location_name = Some(<<" ", "c", "o", "NUL">>),
                       !.province_or_state = Some(<<"NUL", "s", " ", "NUL">>),
                       !.city = Some(<<"c", "NUL", "NUL">>),
                       !.object_name = Some(<<" ", "t", "NUL", "t", " ">>),
                       !.caption = Some(<<"NUL", " ", "a", " ", "b">>)]}
TaggedPhotos ==
  {[DefaultPhoto EXCEPT !.iptc = ip, !.exif =
      [DefaultExif EXCEPT !.subject = sb, !.Regions = rg, !.Rating = rt]] :
     ip \in IptcKinds,
     sb \in {<<>>, <<<<"k", "2">>>>, <<<<"k", "1">>, <<"k", "3">>, <<"k", "3">>>>},
     rg \in {<<>>, <<FaceOf(<<"k", "1">>)>>}, rt \in {None, Some(-1), Some(3), Some(7)}}

(* photos that differ in their face regions, orientation and size *)
RegionKinds ==
  {[Name |-> n, Type |-> t, w |-> b[1], h |-> b[2], x |-> b[3], y |-> b[4]] :
     n \in {<<"k", "1">>, <<>>}, t \in {"Face", "Pet"},
     b \in {<<2, 1, 5, 5>>, <<10, 10, 0, 0>>, <<5, 5, 1, 9>>, <<3, 7, 10, 2>>, <<0, 0, 5, 5>>,
            <<10, 5, 5, 0>>}}
FacePhotos ==
  {[DefaultPhoto EXCEPT !.exif =
      [DefaultExif EXCEPT !.ImageWidth = d[1], !.ImageHeight = d[2], !.Orientation = o,
                          !.subject = <<<<"k", "1">>>>, !.Regions = rg]] :
     d \in {<<4, 3>>, <<1000, 800>>}, o \in 0..8,
     rg \in {<<r>> : r \in RegionKinds} \cup {<<FaceOf(<<"k", "1">>), FaceOf(<<"k", "2">>)>>}}

(* photos that differ in their sidecars *)
SidecarPhotos ==
  {[DefaultPhoto EXCEPT !.iptc = ip, !.sidecars = s, !.exif = [DefaultExif EXCEPT !.Rating = rt]] :
     ip \in {DefaultIptc, [DefaultIptc EXCEPT !.keywords = Some(<<<<"k", "1">>, <<"k", "2">>>>)]},
     rt \in {None, Some(3)}, s \in SidecarSets}

PhotoFiles ==
  UnreadablePhotos \cup TimedPhotos \cup SizedPhotos \cup TaggedPhotos \cup FacePhotos
    \cup SidecarPhotos

AudioStream ==
  [width |-> 0, height |-> None, rotation |-> 0, hasTags |-> TRUE, creation_time |-> None,
   duration |-> Some(7), bit_rate |-> None]
VideoStreams ==
  {[width |-> 4, height |-> h, rotation |-> r, hasTags |-> t, creation_time |-> c,
    duration |-> d, bit_rate |-> Some(2)] :
     h \in {None, Some(3)}, r \in {0, 90}, t \in BOOLEAN, c \in {None, Some(50)},
     d \in {None, Some(7)}}
FormatKinds ==
  {[hasTags |-> FALSE, creation_time |-> None, duration |-> Some(8), bit_rate |-> Some(9)],
   [hasTags |-> TRUE, creation_time |-> None, duration |-> None, bit_rate |-> None],
   [hasTags |-> TRUE, creation_time |-> Some(60), duration |-> Some(8), bit_rate |-> Some(9)]}
DefaultVideo ==
  [kind |-> "video", mtime |-> Some(5), probe |-> "ok",
   streams |-> <<AudioStream>>,
   format |-> [hasTags |-> FALSE, creation_time |-> None, duration |-> Some(8), bit_rate |-> Some(9)],
   sidecars |-> [i \in 1..Len(sidecarPaths) |-> NoSidecar]]
VideoFiles ==
  {[DefaultVideo EXCEPT !.probe = "fails", !.sidecars = s] : s \in SidecarSets}
  \cup
  {[DefaultVideo EXCEPT !.mtime = mt, !.streams = st, !.format = fm, !.sidecars = s] :
     mt \in {None, Some(5)},
     st \in {<<>>, <<AudioStream>>} \cup {<<v>> : v \in VideoStreams}
            \cup {<<AudioStream, v>> : v \in VideoStreams},
     fm \in FormatKinds,
     s \in {DefaultVideo.sidecars}}
  \cup
  {[DefaultVideo EXCEPT !.sidecars = s] : s \in SidecarSets}

(* ---- the steps of a load ---- *)
IdleLoad == [pc |-> "idle", file |-> DefaultPhoto, metadata |-> NewPhotoMetadata, i |-> 0]

InitMeta ==
  /\ now = 1 /\ sens = low /\ diskDirs = {}
  /\ diskLM = [k \in Keys |-> IF k = Root THEN 1 ELSE 0]
  /\ diskPhotos = [k \in Keys |-> [n \in PhotoNames |-> 0]]
  /\ dirs = {} /\ photos = {} /\ nextId = 1 /\ calls = 0
  /\ req = [p \in Procs |-> IdleReq]
  /\ pass = [p \in Procs |-> IdlePass]
  /\ prev = NoKey
  /\ ml = IdleLoad

(* l.177-183 *)
loadPhotoMetadata ==
  /\ ml.pc = "idle"
  /\ \E f \in PhotoFiles :
       ml' = [pc |-> "read", file |-> f, metadata |-> NewPhotoMetadata, i |-> 0]
  /\ UNCHANGED gvars

(* l.225-236, l.612-616: open, read, close; a failure of any returns       *)
(* EMPTY_METADATA                                                          *)
PhotoRead ==
  /\ ml.pc = "read"
  /\ ml' = IF ml.file.open = "ok" THEN [ml EXCEPT !.pc = "stat"]
           ELSE [ml EXCEPT !.pc = "returned", !.metadata = EMPTY_METADATA]
  /\ UNCHANGED gvars

(* l.238-244: statSync, its failure ignored *)
StatSection(m, f) ==
  IF Has(f.mtime) THEN [m EXCEPT !.fileSize = 1, !.creationDate = Val(f.mtime)] ELSE m

(* l.238-244 *)
PhotoStat ==
  /\ ml.pc = "stat"
  /\ ml' = [ml EXCEPT !.pc = "iptc", !.metadata = StatSection(@, ml.file)]
  /\ UNCHANGED gvars

(* l.246-282 *)
PhotoIptc ==
  /\ ml.pc = "iptc"
  /\ ml' = [ml EXCEPT !.pc = "exif", !.metadata = IptcSection(@, ml.file)]
  /\ UNCHANGED gvars

(* l.284-569; a creationDate of 0 or NaN ends as 0 either way *)
PhotoExif ==
  /\ ml.pc = "exif"
  /\ ml' = [ml EXCEPT !.pc = "sidecar", !.metadata = ExifSection(@, ml.file)]
  /\ UNCHANGED gvars

(* l.581-605, l.138-161, then return metadata: the next candidate path; a  *)
(* throw leaves the loop                                                   *)
Sidecar ==
  /\ ml.pc = "sidecar"
  /\ LET r == MergeSidecar(ml.metadata, ml.file.sidecars[ml.i + 1])
     IN ml' = [ml EXCEPT !.metadata = r.m, !.i = ml.i + 1,
                 !.pc = IF r.threw \/ ml.i + 1 = Len(sidecarPaths)
                        THEN "returned" ELSE "sidecar"]
  /\ UNCHANGED gvars

(* l.26-46 *)
loadVideoMetadata ==
  /\ ml.pc = "idle"
  /\ \E f \in VideoFiles :
       ml' = [pc |-> "probe", file |-> f, i |-> 0,
              metadata |-> IF Has(f.mtime)
                           THEN [NewVideoMetadata EXCEPT !.fileSize = 1,
                                                         !.creationDate = Val(f.mtime)]
                           ELSE NewVideoMetadata]
  /\ UNCHANGED gvars

(* l.50-53, l.163-167: ffprobe; when it fails the record is returned as it is *)
VideoProbe ==
  /\ ml.pc = "probe"
  /\ ml' = [ml EXCEPT !.pc = IF ml.file.probe = "ok" THEN "streams" ELSE "returned"]
  /\ UNCHANGED gvars

(* l.55-126 *)
VideoStreamsRead ==
  /\ ml.pc = "streams"
  /\ ml' = [ml EXCEPT !.pc = "sidecar", !.metadata = StreamsSection(@, ml.file)]
  /\ UNCHANGED gvars

NextMeta ==
  \/ loadPhotoMetadata \/ PhotoRead \/ PhotoStat \/ PhotoIptc \/ PhotoExif
  \/ loadVideoMetadata \/ VideoProbe \/ VideoStreamsRead
  \/ Sidecar
SpecMeta == InitMeta /\ [][NextMeta]_vars

(* ======================= the claims on MetadataLoader ======================= *)
Returned == ml.pc = "returned"
IsPhoto == ml.file.kind = "photo"
IsVideo == ml.file.kind = "video"
(* the steps before the sidecar merge ran to their end *)
HeaderRead == IF IsPhoto THEN ml.file.open = "ok" ELSE ml.file.probe = "ok"
Elements(s) == {s[i] : i \in 1..Len(s)}

(* C13: every record returned by loadPhotoMetadata and loadVideoMetadata   *)
(* has size.width >= 1 and size.height >= 1.                               *)
C13_SizeAtLeastOne ==
  Returned =>
    /\ Has(ml.metadata.size.width) /\ Val(ml.metadata.size.width) >= 1
    /\ Has(ml.metadata.size.height) /\ Val(ml.metadata.size.height) >= 1

(* C14: when the header read of a photo fails entirely, the load returns   *)
(* the sentinel record: size 1x1, creationDate 0, no optional field.       *)
C14_ReadFailureSentinel ==
  (Returned /\ IsPhoto /\ ml.file.open # "ok") =>
    /\ ml.metadata.size = [width |-> Some(1), height |-> Some(1)]
    /\ ml.metadata.creationDate = 0
    /\ ~Has(ml.metadata.keywords) /\ ~Has(ml.metadata.rating) /\ ~Has(ml.metadata.faces)
    /\ ~Has(ml.metadata.cameraData) /\ ~Has(ml.metadata.positionData)
    /\ ~Has(ml.metadata.title) /\ ~Has(ml.metadata.caption)

(* C15: the creation timestamp of a photo is the first present tag among   *)
(* DateTimeOriginal, CreateDate, ifd0 ModifyDate, read at that tag's own   *)
(* offset tag when present, else at a sibling offset tag, else at the      *)
(* GPS-derived offset, else at UTC; and the other EXIF fields are          *)
(* extracted whichever tag it was.                                         *)
TimeTags(e) ==
  <<[time |-> IF e.hasExif THEN e.DateTimeOriginal ELSE None,
     own |-> e.OffsetTimeOriginal, siblings |-> {e.OffsetTimeDigitized, e.OffsetTime}],
    [time |-> IF e.hasExif THEN e.CreateDate ELSE None,
     own |-> e.OffsetTimeDigitized, siblings |-> {e.OffsetTimeOriginal, e.OffsetTime}],
    [time |-> IF e.hasIfd0 THEN e.ModifyDate ELSE None,
     own |-> e.OffsetTime, siblings |-> {e.OffsetTimeOriginal, e.OffsetTimeDigitized}]>>
FirstTimeTag(e) ==
  LET present == {i \in 1..3 : Has(TimeTags(e)[i].time)}
  IN IF present = {} THEN 0 ELSE CHOOSE i \in present : \A j \in present : i <= j
ClaimedCreation(e) ==
  LET t == TimeTags(e)[FirstTimeTag(e)]
      own == IF e.hasExif THEN t.own ELSE None
      sib == IF e.hasExif THEN {o \in t.siblings : Has(o)} ELSE {}
      gps == getTimeOffsetByGPSStamp(t.time, e)
  IN IF Has(own) THEN {Val(t.time) - Val(own)}
     ELSE IF sib # {} THEN {Val(t.time) - Val(o) : o \in sib}
     ELSE IF Has(gps) THEN {Val(t.time) - Val(gps)}
     ELSE {Val(t.time)}
C15_CreationPrecedence ==
  LET e == ml.file.exif
  IN (Returned /\ IsPhoto /\ ml.file.open = "ok" /\ e.parse = "ok" /\ FirstTimeTag(e) # 0) =>
       /\ ml.metadata.creationDate \in ClaimedCreation(e)
       /\ (e.hasExif /\ e.LensModel) =>
            (Has(ml.metadata.cameraData) /\ "lens" \in Val(ml.metadata.cameraData))
       /\ Val(ml.metadata.size.width) >= 1 /\ Val(ml.metadata.size.height) >= 1
       /\ (e.hasGps /\ e.latlong) =>
            (Has(ml.metadata.positionData) /\ "GPSData" \in Val(ml.metadata.positionData))
       /\ (Has(e.Rating) /\ Val(e.Rating) # 0) => Has(ml.metadata.rating)
       /\ (\E i \in 1..Len(e.Regions) : e.Regions[i].Type = "Face" /\ e.Regions[i].Name # <<>>)
            => Has(ml.metadata.faces)

(* C16: the creation time of a video is the creation_time of the selected  *)
(* stream when that resolves, else the one of the container format when    *)
(* that resolves, else the filesystem mtime.                               *)
C16_VideoCreationOrder ==
  LET f == ml.file
      i == SelectedStream(f.streams)
      stream == IF i # 0 /\ f.streams[i].hasTags THEN f.streams[i].creation_time ELSE None
      format == IF f.format.hasTags THEN f.format.creation_time ELSE None
  IN (Returned /\ IsVideo /\ f.probe = "ok") =>
       ml.metadata.creationDate =
         IF Has(stream) THEN Val(stream)
         ELSE IF Has(format) THEN Val(format)
         ELSE IF Has(f.mtime) THEN Val(f.mtime) ELSE 0

(* C17: whatever happened in the earlier steps, the subject keywords and   *)
(* the rating of every parseable sidecar are in the returned record.       *)
Parseable(sc) == sc.exists /\ sc.parse = "ok" /\ sc.hasDc /\ sc.hasXmp
Fails(sc) == sc.exists /\ (sc.parse = "throws" \/ ~sc.hasDc \/ ~sc.hasXmp)
Merged(sc) ==
  /\ Has(sc.subject) =>
       /\ Has(ml.metadata.keywords)
       /\ Elements(Val(sc.subject)) \subseteq Elements(Val(ml.metadata.keywords))
  /\ Has(sc.Rating) => Has(ml.metadata.rating)
C17_SidecarAlwaysMerged ==
  (Returned /\ \A i \in 1..Len(sidecarPaths) : ~Fails(ml.file.sidecars[i])) =>
    \A i \in 1..Len(sidecarPaths) :
      Parseable(ml.file.sidecars[i]) => Merged(ml.file.sidecars[i])

(* C18: when the sidecar merge is reached and one candidate fails, the     *)
(* other candidates are still merged, those after it included.             *)
C18_SidecarFailurePerCandidate ==
  (Returned /\ HeaderRead /\ \E i \in 1..Len(sidecarPaths) : Fails(ml.file.sidecars[i])) =>
    \A i \in 1..Len(sidecarPaths) :
      Parseable(ml.file.sidecars[i]) => Merged(ml.file.sidecars[i])

(* C19: the keyword list of a returned record holds no string twice.       *)
C19_KeywordsDistinct ==
  (Returned /\ Has(ml.metadata.keywords)) =>
    LET kws == Val(ml.metadata.keywords)
    IN \A i, j \in 1..Len(kws) : kws[i] = kws[j] => i = j

(* C20: the rating of a returned record, when it has one, is in [0,5].     *)
C20_RatingClamped ==
  (Returned /\ Has(ml.metadata.rating)) =>
    (0 <= Val(ml.metadata.rating) /\ Val(ml.metadata.rating) <= 5)

(* l.238-564: the record of a readable photo when the sidecar merge begins *)
PhotoHeader(f) == ExifSection(IptcSection(StatSection(NewPhotoMetadata, f), f), f)

(* C21: when a sidecar declares a rating, the returned rating is the one   *)
(* of the last-probed sidecar that declares one, whatever the embedded     *)
(* rating; when no sidecar declares one, the embedded rating is kept.      *)
Declares(sc) == Parseable(sc) /\ Has(sc.Rating)
EmbeddedRating ==
  IF IsPhoto /\ ml.file.open = "ok" THEN PhotoHeader(ml.file).rating ELSE None
C21_SidecarRatingWins ==
  LET declaring == {i \in 1..Len(sidecarPaths) : Declares(ml.file.sidecars[i])}
      probed == {i \in declaring : i <= ml.i}
      last == CHOOSE i \in probed : \A j \in probed : j <= i
  IN Returned =>
       IF declaring # {}
       THEN probed # {} /\ ml.metadata.rating = ml.file.sidecars[last].Rating
       ELSE ml.metadata.rating = EmbeddedRating
(* the same, for the loads whose sidecar loop ran over every candidate *)
C21_WhenLoopCompletes ==
  (HeaderRead /\ \A i \in 1..Len(sidecarPaths) : ~Fails(ml.file.sidecars[i]))
    => C21_SidecarRatingWins

(* C22: with the same image data, the orientation codes 5 to 8 return the  *)
(* size of orientation 1 with width and height exchanged, and the codes 1  *)
(* to 4 return the size of orientation 1, whether the dimensions came from *)
(* the ifd0 tags, the exif tags or imageSize.                              *)
Upright(f) == PhotoHeader([f EXCEPT !.exif.Orientation = 1]).size
HasOrientation(f) ==
  f.open = "ok" /\ f.exif.parse = "ok" /\ f.exif.hasIfd0 /\ f.exif.Orientation \in 1..8
C22_OrientationSwapsSize ==
  (Returned /\ IsPhoto /\ HasOrientation(ml.file)) =>
    ml.metadata.size =
      IF ml.file.exif.Orientation > 4
      THEN [width |-> Upright(ml.file).height, height |-> Upright(ml.file).width]
      ELSE Upright(ml.file)
(* the same, for the photos whose exif block is not left at l.348 *)
C22_WhenExifBlockCompletes ==
  (IsPhoto /\ ml.file.exif.hasExif => ~ExifTimestamps(NewPhotoMetadata, ml.file.exif).threw)
    => C22_OrientationSwapsSize

(* C23: the pixel box of a face region with ratio box (w,h,x,y) at         *)
(* orientation o on an image of final size W x H: x and y, w and h are     *)
(* exchanged when o > 4; x is mirrored for o in {2,3,6,7} and y for o in   *)
(* {3,4,7,8}; width = round(w*W), height = round(h*H), left = round(x*W),  *)
(* top = round(y*H); then left := round(max(0, left - width/2)) and        *)
(* top := round(max(0, top - height/2)).  Every coordinate of the final    *)
(* box is non-negative.                                                    *)
OrientationOf(e) == IF e.hasIfd0 /\ e.Orientation # 0 THEN e.Orientation ELSE 1
NamedFaces(e) == SelectSeq(e.Regions, LAMBDA r : r.Type = "Face" /\ r.Name # <<>>)
ClaimedBox(r, o, W, H) ==
  LET w1 == IF o > 4 THEN r.h ELSE r.w
      h1 == IF o > 4 THEN r.w ELSE r.h
      x1 == IF o > 4 THEN r.y ELSE r.x
      y1 == IF o > 4 THEN r.x ELSE r.y
      x2 == IF o \in {2, 3, 6, 7} THEN Abs(x1 - 10) ELSE x1
      y2 == IF o \in {3, 4, 7, 8} THEN Abs(y1 - 10) ELSE y1
      width == RoundRatio(w1, W)
      height == RoundRatio(h1, H)
  IN [width |-> width, height |-> height,
      left |-> RoundedCorner(RoundRatio(x2, W), width),
      top |-> RoundedCorner(RoundRatio(y2, H), height)]
FacesAsClaimed ==
  LET e == ml.file.exif
      faces == Val(ml.metadata.faces)
  IN (Returned /\ IsPhoto /\ Has(ml.metadata.faces)) =>
       /\ Len(faces) = Len(NamedFaces(e))
       /\ \A i \in 1..Len(faces) :
            /\ faces[i].box = ClaimedBox(NamedFaces(e)[i], OrientationOf(e),
                                         Val(ml.metadata.size.width), Val(ml.metadata.size.height))
            /\ faces[i].box.left >= 0 /\ faces[i].box.top >= 0
            /\ faces[i].box.width >= 0 /\ faces[i].box.height >= 0
(* the face {w:0.2, h:0.1, x:0.5, y:0.5} on 1000x800 at orientation 1 is returned *)
ExampleFace ==
  /\ Returned /\ IsPhoto /\ Has(ml.metadata.faces)
  /\ OrientationOf(ml.file.exif) = 1
  /\ ml.metadata.size = [width |-> Some(1000), height |-> Some(800)]
  /\ NamedFaces(ml.file.exif)[1] = FaceOf(NamedFaces(ml.file.exif)[1].Name)
ExampleSize == [width |-> Some(1000), height |-> Some(800)]
(* C23 as stated: the example has the intermediate box {width:200,         *)
(* height:80, left:400, top:360} and the final box {left:300, top:320,     *)
(* width:200, height:80}.                                                  *)
C23_FaceBoxAsStated ==
  /\ FacesAsClaimed
  /\ ExampleFace =>
       /\ createFaceBox(2, 1, 5, 5, 1, ExampleSize)
            = [width |-> 200, height |-> 80, left |-> 400, top |-> 360]
       /\ Val(ml.metadata.faces)[1].box = [left |-> 300, top |-> 320, width |-> 200, height |-> 80]
(* C23, amended: the same computation; the example has the intermediate    *)
(* box {width:200, height:80, left:500, top:400} and the final box         *)
(* {left:400, top:360, width:200, height:80}.                              *)
C23_FaceBoxComputed ==
  /\ FacesAsClaimed
  /\ ExampleFace =>
       /\ createFaceBox(2, 1, 5, 5, 1, ExampleSize)
            = [width |-> 200, height |-> 80, left |-> 500, top |-> 400]
       /\ Val(ml.metadata.faces)[1].box = [left |-> 400, top |-> 360, width |-> 200, height |-> 80]
C23_Witness ==
  /\ ExampleFace
  /\ Val(ml.metadata.faces)[1].box = [left |-> 400, top |-> 360, width |-> 200, height |-> 80]
(* a face at a rotated orientation whose box was clamped at the left edge *)
C23_RotatedClamped ==
  /\ Returned /\ IsPhoto /\ Has(ml.metadata.faces) /\ OrientationOf(ml.file.exif) > 4
  /\ \E i \in 1..Len(Val(ml.metadata.faces)) :
       LET b == Val(ml.metadata.faces)[i].box IN b.left = 0 /\ b.width > 0 /\ b.top > 0

(* C24: every string field taken from the IPTC section (country, state,    *)
(* city, title, caption and each keyword) is stored without any NUL        *)
(* character and without leading or trailing white space.                  *)
CleanString(str) ==
  /\ \A i \in 1..Len(str) : str[i] # "NUL"
  /\ str # <<>> => (Head(str) # " " /\ str[Len(str)] # " ")
IptcRead == Returned /\ IsPhoto /\ ml.file.open = "ok" /\ ~ml.file.iptc.throws
IptcFieldsClean ==
  IptcRead =>
    \A o \in {ml.metadata.country, ml.metadata.state, ml.metadata.city,
              ml.metadata.title, ml.metadata.caption} : Has(o) => CleanString(Val(o))
IptcKeywordsClean ==
  (IptcRead /\ Has(ml.file.iptc.keywords) /\ Has(ml.metadata.keywords)) =>
    \A k \in Elements(Val(ml.metadata.keywords)) :
      k \in Elements(Val(ml.file.iptc.keywords)) => CleanString(k)
C24_IptcStringsClean == IptcFieldsClean /\ IptcKeywordsClean

(* ======================= the claims on GalleryManager, continued ======================= *)
(* C25: in every persisted tree that listDirectory returns, each child     *)
(* subdirectory has isPartial = true and at most folderPreviewSize photos, *)
(* the photos of that subdirectory with the smallest creation dates, in    *)
(* ascending order of creation date.                                       *)
PreviewAsClaimed(e) ==
  LET rest == PhotosOf(e.id) \ Range(e.photos)
  IN /\ e.isPartial
     /\ Len(e.photos) <= folderPreviewSize
     /\ Len(e.photos) = Min(folderPreviewSize, Cardinality(PhotosOf(e.id)))
     /\ \A i \in 1..Len(e.photos) : e.photos[i] \in PhotosOf(e.id)
     /\ \A i, j \in 1..Len(e.photos) :
          i < j => /\ e.photos[i] # e.photos[j]
                   /\ e.photos[i].metadata.creationDate <= e.photos[j].metadata.creationDate
     /\ \A i \in 1..Len(e.photos) : \A ph \in rest :
          e.photos[i].metadata.creationDate <= ph.metadata.creationDate
ReturnsPersisted(p) ==
  /\ req[p].pc \in {"read", "preview"}
  /\ req'[p].pc = "done" /\ req'[p].result = "dir"
Delivered(p) == req[p].pc = "done" /\ req[p].result = "scanned"
C26_ReturnedAfterWriteBack ==
  [][\A p \in Procs : Delivered(p) =>
       /\ dirs' = dirs /\ photos' = photos
       /\ LET row == FindDir(req[p].tgt, RootPath)
          IN /\ row.id # 0 /\ row.scanned
             /\ row.lastModified = pass[p].scannedDirectory.lastModified
             /\ row.lastScanned = pass[p].scannedDirectory.lastScanned]_vars

(* C27: a pass of a directory never fully reconciles its subdirectories.   *)
(* A child row inserted by the parent's pass has scanned = false and only  *)
(* its preview photos; the row of a child that is already persisted (and   *)
(* still in the directory) keeps its scanned flag, lastModified,           *)
(* lastScanned, photos and children through the parent's pass; and a call  *)
(* for a child whose row has scanned = false performs a full scan: it      *)
(* returns neither the stored row nor null.                                *)
InsertedChildPartial(p) ==
  /\ pass[p].pc = "saveDir" =>
       \A d \in dirs' \ dirs : d.parent = pass[p].parentDir.id /\ ~d.scanned
  /\ pass[p].pc = "saveDirPhotos" =>
       /\ \A ph \in photos' \ photos : ph.directory = pass[p].d
       /\ Cardinality({ph \in photos' : ph.directory = pass[p].d}) <= folderPreviewSize
       /\ dirs' = dirs
PersistedChildKept(p) ==
  (PassBusy(p) /\ pass[p].parentDir.id # 0) =>
    \A d \in ChildDirs(pass[p].parentDir.id) :
      d.name \in Names(Range(pass[p].scannedDirectory.directories)) =>
        /\ d \in dirs'
        /\ {ph \in photos' : ph.directory = d.id} = PhotosOf(d.id) \/ d.id = pass[p].d
        /\ {c \in dirs' : c.parent = d.id} = ChildDirs(d.id)
UnscannedChildScanned(p) ==
  (req[p].pc \notin {"idle", "read"} /\ req[p].dir.id # 0 /\ ~req[p].dir.scanned) =>
    /\ req[p].result \in {"none", "scanned", "error"}
    /\ req[p].pc = "wait" => (pass[p].pc = "scan" /\ ~pass[p].background)
    /\ req[p].pc = "done" /\ req[p].result = "scanned" =>
         pass[p].scannedDirectory.name = req[p].tgt
C27_ChildrenLeftPartial ==
  [][\A p \in Procs :
       InsertedChildPartial(p) /\ PersistedChildKept(p) /\ UnscannedChildScanned(p)]_vars
(* the call found the row its parent's pass inserted, and scanned the child *)
C27_Witness ==
  \E p \in Procs :
    /\ req[p].pc = "done" /\ req[p].result = "scanned"
    /\ req[p].dir.id # 0 /\ req[p].dir.parent # 0 /\ ~req[p].dir.scanned
    /\ Cardinality(PhotosOf(req[p].dir.id)) > folderPreviewSize

(* C28: listDirectory returns null only when the caller passed a non-zero  *)
(* knownLastModified and a non-zero knownLastScanned, the directory has a  *)
(* row with scanned = true, knownLastModified is the disk's lastModified   *)
(* and knownLastScanned is the row's lastScanned.                          *)
C28_NullOnlyWhenCacheValid ==
  \A p \in Procs :
    req[p].result = "null" =>
      /\ req[p].known[1] # 0 /\ req[p].known[2] # 0
      /\ req[p].dir.id # 0 /\ req[p].dir.scanned
      /\ req[p].known[1] = req[p].lastModified
      /\ req[p].known[2] = req[p].dir.lastScanned
C28_Witness ==
  \E p \in Procs : req[p].pc = "done" /\ req[p].result = "null" /\ req[p].known[1] # 0

(* C29 as stated: once a pass of a directory has run to its end (with or   *)
(* without an error in the child diff) and the filesystem does not change  *)
(* afterwards, the persisted lastModified of the directory is the disk's,  *)
(* and a later call for it performs no synchronous rescan: it starts a     *)
(* background rescan at most.                                              *)
NoSynchronousRescan(p) ==
  /\ req[p].pc # "wait" /\ req[p].result \notin {"scanned", "error"}
  /\ req[p].pc \notin {"idle", "read"} =>
       /\ req[p].dir.id # 0 /\ req[p].dir.scanned
       /\ req[p].dir.lastModified = req[p].lastModified
  /\ (req[p].pc = "done" /\ pass[p].pc # "idle") => pass[p].background
C29_ConvergesAfterPassEnd ==
  \A p \in Procs : req[p].afterEnd => NoSynchronousRescan(p)
(* C29, amended: the same, when the filesystem has not changed since the   *)
(* pass scanned the directory.                                             *)
C29_ConvergesAfterScan ==
  \A p \in Procs : req[p].after => NoSynchronousRescan(p)
(* the call that follows a pass which ended in the child diff, answered    *)
(* with the persisted tree and a background rescan                         *)
C29_Witness ==
  \E p \in Procs :
    /\ req[p].after /\ req[p].pc = "done" /\ req[p].result = "dir"
    /\ pass[p].pc # "idle" /\ pass[p].background
====
